---- MODULE Spec2Model ----
(***************************************************************************)
(* A model of go2_d1_control.controller.D1ArmController: the four command  *)
(* operations (move_joint, move_all_joints, enable_joints, go_to_zero),    *)
(* the private _send helper with its sequence counter, and the JSON text   *)
(* that is handed to the command topic's DataWriter.                       *)
(*                                                                         *)
(* Python values are tagged records: [t |-> "int", v |-> n] is the int n,  *)
(* [t |-> "float", v |-> n] is the float n.0 (only floats with an integral *)
(* value are drawn), [t |-> "obj", v |-> <<item, ...>>] is a dict whose    *)
(* items [k |-> key, val |-> value] are kept in insertion order.           *)
(* A JSON text is a sequence of one-character strings, except that a       *)
(* string literal (a key) is one token.                                    *)
(***************************************************************************)
EXTENDS Integers, Sequences, FiniteSets, TLC

(* ------------------------------ bounds --------------------------------- *)

\* Calls are accepted while fewer than MaxSends records have been written.
MaxSends == 2

\* Number of caller threads of the multi-threaded specification.
NumThreads == 2

(* --------------------------- program constants ------------------------- *)

\* len(JOINT_NAMES): the length move_all_joints insists on.
NumJoints == 7

\* The highest joint number move_joint accepts.
MaxJointId == 6

\* payload["address"] = 1
ADDRESS == 1

\* delay_ms: int = 0
DefaultDelayMs == 0

\* mode: int = 0
DefaultMode == 0

(* ------------------------------ inputs --------------------------------- *)

IntV(n) == [t |-> "int", v |-> n]
FloatV(n) == [t |-> "float", v |-> n]

JointIds == -1 .. 7
Angles == {FloatV(45)}
Delays == {250}
Modes == {-1, 0, 1}

Ramp == [i \in 1 .. NumJoints |-> IntV(10 * (i - 1))]
Mixed == [i \in 1 .. NumJoints |-> IF i % 2 = 0 THEN FloatV(5 - 15 * i) ELSE IntV(100 + i)]
AngleLists ==
    { Ramp, Mixed, <<>>, SubSeq(Ramp, 1, NumJoints - 1), Append(Mixed, FloatV(0)) }

(* --------------------------- json.dumps -------------------------------- *)

DigitChar == <<"0", "1", "2", "3", "4", "5", "6", "7", "8", "9">>
DigitSet == {DigitChar[i] : i \in 1 .. 10}

RECURSIVE Digits(_)
Digits(n) ==
    IF n < 10 THEN <<DigitChar[n + 1]>>
    ELSE Digits(n \div 10) \o <<DigitChar[(n % 10) + 1]>>

\* int.__repr__
IntText(n) == IF n < 0 THEN <<"-">> \o Digits(-n) ELSE Digits(n)

\* float.__repr__ of a float with an integral value: "45.0"
FloatText(n) == IntText(n) \o <<".", "0">>

RECURSIVE dumps(_), dumps_items(_)
dumps_items(items) ==
    IF Len(items) = 0 THEN <<>>
    ELSE <<items[1].k, ":", " ">> \o dumps(items[1].val)
         \o (IF Len(items) = 1 THEN <<>> ELSE <<",", " ">> \o dumps_items(Tail(items)))

\* json.dumps with its default separators (", ", ": ")
dumps(x) ==
    CASE x.t = "int" -> IntText(x.v)
      [] x.t = "float" -> FloatText(x.v)
      [] x.t = "obj" -> <<"{">> \o dumps_items(x.v) \o <<"}">>

(* --------------------------- json.loads -------------------------------- *)

DigitVal(c) == CHOOSE i \in 0 .. 9 : DigitChar[i + 1] = c

RECURSIVE SkipWs(_)
SkipWs(s) == IF Len(s) > 0 /\ Head(s) = " " THEN SkipWs(Tail(s)) ELSE s

RECURSIVE ParseDigits(_, _)
ParseDigits(s, acc) ==
    IF Len(s) > 0 /\ Head(s) \in DigitSet
    THEN ParseDigits(Tail(s), 10 * acc + DigitVal(Head(s)))
    ELSE [val |-> acc, rest |-> s]

\* A JSON number: optional sign, digits, optional fraction ".0".
ParseNumber(s) ==
    LET neg == Len(s) > 0 /\ Head(s) = "-"
        d == ParseDigits(IF neg THEN Tail(s) ELSE s, 0)
        frac == Len(d.rest) > 1 /\ d.rest[1] = "." /\ d.rest[2] = "0"
    IN [val |-> IF neg THEN -d.val ELSE d.val,
        rest |-> IF frac THEN Tail(Tail(d.rest)) ELSE d.rest]

RECURSIVE ParseValue(_), ParseMembers(_, _)
\* The members of an object after "{" up to and including "}"; a repeated
\* key keeps its last value, as in a Python dict.
ParseMembers(s, acc) ==
    LET s1 == SkipWs(s) IN
    IF Head(s1) = "}" THEN [val |-> acc, rest |-> Tail(s1)]
    ELSE IF Head(s1) = "," THEN ParseMembers(Tail(s1), acc)
    ELSE LET key == Head(s1)
             s2 == SkipWs(Tail(s1))           \* at ":"
             pv == ParseValue(SkipWs(Tail(s2)))
         IN ParseMembers(pv.rest, (key :> pv.val) @@ acc)

ParseValue(s) ==
    IF Head(s) = "{" THEN ParseMembers(Tail(s), <<>>) ELSE ParseNumber(s)

\* json.loads: a number is an integer, an object a function from its keys.
loads(s) == ParseValue(SkipWs(s)).val

(* ------------------------------ state ---------------------------------- *)

VARIABLES
    _seq,        \* self._seq
    cmd_writer,  \* the ArmString.data_ texts write() accepted, in order
    stdout,      \* the line the latest call printed ("" when it printed none)
    call,        \* the latest call of the single-threaded caller and its outcome
    pc,          \* per thread: its position inside a command
    frame,       \* per thread: the locals of the command it runs
    overlapped   \* TRUE once a thread entered _send while another was inside it

vars == <<_seq, cmd_writer, stdout, call, pc, frame, overlapped>>

Threads == 1 .. NumThreads

NoCall ==
    [op |-> "none", joint_id |-> 0, angle |-> IntV(0), delay_ms |-> 0,
     angles |-> <<>>, mode |-> 0, omitted |-> FALSE, raised |-> FALSE,
     stamped |-> -1]

NoFrame == [op |-> "none", mode |-> 0, msg |-> <<>>, loaded |-> 0]

\* The state __init__ leaves: self._seq = 0, nothing written yet.
Init ==
    /\ _seq = 0
    /\ cmd_writer = <<>>
    /\ stdout = ""
    /\ call = NoCall
    /\ pc = [t \in Threads |-> "idle"]
    /\ frame = [t \in Threads |-> NoFrame]
    /\ overlapped = FALSE

(* ----------------------------- payloads -------------------------------- *)

Item(k, val) == [k |-> k, val |-> val]
Obj(items) == [t |-> "obj", v |-> items]

JointIdRejectedUpperOnly(joint_id) == joint_id > MaxJointId

\* if joint_id < 0 or joint_id > 6: ... return
JointIdRejected(joint_id) == joint_id < 0 \/ joint_id > MaxJointId

AnglesRejectedShortOnly(angles) == Len(angles) < NumJoints

\* if len(angles) != 7: ... return
AnglesRejected(angles) == Len(angles) # NumJoints

MoveJointPayloadNoDelay(joint_id, angle, delay_ms) ==
    <<Item("funcode", IntV(1)),
      Item("data", Obj(<<Item("id", IntV(joint_id)),
                         Item("angle", angle),
                         Item("delay_ms", IntV(DefaultDelayMs))>>))>>

MoveJointPayload(joint_id, angle, delay_ms) ==
    <<Item("funcode", IntV(1)),
      Item("data", Obj(<<Item("id", IntV(joint_id)),
                         Item("angle", angle),
                         Item("delay_ms", IntV(delay_ms))>>))>>

AngleKey == <<"angle0", "angle1", "angle2", "angle3", "angle4", "angle5", "angle6">>

MoveAllPayloadShifted(angles) ==
    <<Item("funcode", IntV(2)),
      Item("data", Obj(<<Item("mode", IntV(1))>>
                       \o [i \in 1 .. NumJoints |->
                              Item(AngleKey[i], angles[(i % NumJoints) + 1])]))>>

MoveAllPayload(angles) ==
    <<Item("funcode", IntV(2)),
      Item("data", Obj(<<Item("mode", IntV(1))>>
                       \o [i \in 1 .. NumJoints |-> Item(AngleKey[i], angles[i])]))>>

EnablePayloadFixedMode(mode) ==
    <<Item("funcode", IntV(5)), Item("data", Obj(<<Item("mode", IntV(DefaultMode))>>))>>

EnablePayload(mode) ==
    <<Item("funcode", IntV(5)), Item("data", Obj(<<Item("mode", IntV(mode))>>))>>

ZeroPayloadWithData == <<Item("funcode", IntV(7)), Item("data", Obj(<<>>))>>

ZeroPayload == <<Item("funcode", IntV(7))>>

\* payload[key] = value: replaces the value of a key the dict holds, appends otherwise
SetItem(items, key, val) ==
    IF \E i \in 1 .. Len(items) : items[i].k = key
    THEN [i \in 1 .. Len(items) |-> IF items[i].k = key THEN Item(key, val) ELSE items[i]]
    ELSE Append(items, Item(key, val))

MessageSwapped(payload, s) ==
    dumps(Obj(SetItem(SetItem(payload, "seq", IntV(ADDRESS)), "address", IntV(s))))

MessageSeqAfter(payload, s) ==
    dumps(Obj(SetItem(SetItem(payload, "seq", IntV(s + 1)), "address", IntV(ADDRESS))))

\* payload["seq"] = self._seq; payload["address"] = 1;
\* msg = ArmString(data_=json.dumps(payload))
Message(payload, s) ==
    dumps(Obj(SetItem(SetItem(payload, "seq", IntV(s)), "address", IntV(ADDRESS))))

IncrementedTwice(s) == s + 2

\* self._seq += 1
Incremented(s) == s + 1

SeqAfterSendEager(s, ok) == Incremented(s)

\* _send: the counter after the call; write() raising skips the increment
SeqAfterSend(s, ok) == IF ok THEN Incremented(s) ELSE s

(* ------------------- the commands, one caller thread ------------------- *)

Accepting == Len(cmd_writer) < MaxSends

\* _send(payload); ok is whether self.cmd_writer.write(msg) returned
Send(payload, ok) ==
    /\ cmd_writer' = IF ok THEN Append(cmd_writer, Message(payload, _seq)) ELSE cmd_writer
    /\ _seq' = SeqAfterSend(_seq, ok)

\* move_joint(joint_id, angle[, delay_ms])
move_joint(joint_id, angle, delay, omitted, ok) ==
    LET delay_ms == IF omitted THEN DefaultDelayMs ELSE delay IN
    /\ Accepting
    /\ IF JointIdRejected(joint_id)
       THEN /\ stdout' = "Error: joint_id must be 0-6"
            /\ UNCHANGED <<_seq, cmd_writer>>
            /\ call' = [NoCall EXCEPT !.op = "move_joint", !.joint_id = joint_id,
                                      !.angle = angle, !.delay_ms = delay_ms,
                                      !.omitted = omitted]
       ELSE /\ Send(MoveJointPayload(joint_id, angle, delay_ms), ok)
            /\ stdout' = IF ok THEN "Joint -> deg" ELSE ""
            /\ call' = [NoCall EXCEPT !.op = "move_joint", !.joint_id = joint_id,
                                      !.angle = angle, !.delay_ms = delay_ms,
                                      !.omitted = omitted, !.raised = ~ok,
                                      !.stamped = _seq]
    /\ UNCHANGED <<pc, frame, overlapped>>

\* move_all_joints(angles)
move_all_joints(angles, ok) ==
    /\ Accepting
    /\ IF AnglesRejected(angles)
       THEN /\ stdout' = "Error: expected 7 angles"
            /\ UNCHANGED <<_seq, cmd_writer>>
            /\ call' = [NoCall EXCEPT !.op = "move_all_joints", !.angles = angles]
       ELSE /\ Send(MoveAllPayload(angles), ok)
            /\ stdout' = IF ok THEN "All joints ->" ELSE ""
            /\ call' = [NoCall EXCEPT !.op = "move_all_joints", !.angles = angles,
                                      !.raised = ~ok, !.stamped = _seq]
    /\ UNCHANGED <<pc, frame, overlapped>>

\* print(f"Joints {'enabled' if mode == 0 else 'disabled'}")
EnableLine(mode) == IF mode = 0 THEN "Joints enabled" ELSE "Joints disabled"

\* enable_joints([mode])
enable_joints(m, omitted, ok) ==
    LET mode == IF omitted THEN DefaultMode ELSE m IN
    /\ Accepting
    /\ Send(EnablePayload(mode), ok)
    /\ stdout' = IF ok THEN EnableLine(mode) ELSE ""
    /\ call' = [NoCall EXCEPT !.op = "enable_joints", !.mode = mode,
                              !.omitted = omitted, !.raised = ~ok, !.stamped = _seq]
    /\ UNCHANGED <<pc, frame, overlapped>>

\* go_to_zero()
go_to_zero(ok) ==
    /\ Accepting
    /\ Send(ZeroPayload, ok)
    /\ stdout' = IF ok THEN "Moving to zero position..." ELSE ""
    /\ call' = [NoCall EXCEPT !.op = "go_to_zero", !.raised = ~ok, !.stamped = _seq]
    /\ UNCHANGED <<pc, frame, overlapped>>

Next ==
    \/ \E j \in JointIds, a \in Angles, d \in Delays, o \in BOOLEAN, ok \in BOOLEAN :
           move_joint(j, a, d, o, ok)
    \/ \E as \in AngleLists, ok \in BOOLEAN : move_all_joints(as, ok)
    \/ \E m \in Modes, o \in BOOLEAN, ok \in BOOLEAN : enable_joints(m, o, ok)
    \/ \E ok \in BOOLEAN : go_to_zero(ok)

Spec == Init /\ [][Next]_vars

(* ------------- _send, step by step, under several threads -------------- *)

Inside(t) == pc[t] # "idle"

ThreadPayload(f) == IF f.op = "go_to_zero" THEN ZeroPayload ELSE EnablePayload(f.mode)

ThreadLine(f) ==
    IF f.op = "go_to_zero" THEN "Moving to zero position..." ELSE EnableLine(f.mode)

\* Thread t calls enable_joints(mode) or go_to_zero(), which calls _send.
Enter(t, op, mode) ==
    /\ pc[t] = "idle"
    /\ Len(cmd_writer) + Cardinality({u \in Threads : Inside(u)}) < MaxSends
    /\ pc' = [pc EXCEPT ![t] = "stamp"]
    /\ frame' = [frame EXCEPT ![t] = [NoFrame EXCEPT !.op = op, !.mode = mode]]
    /\ overlapped' = (overlapped \/ \E u \in Threads \ {t} : Inside(u))
    /\ UNCHANGED <<_seq, cmd_writer, stdout, call>>

\* payload["seq"] = self._seq ... msg = ArmString(data_=json.dumps(payload))
Stamp(t) ==
    /\ pc[t] = "stamp"
    /\ frame' = [frame EXCEPT ![t].msg = Message(ThreadPayload(frame[t]), _seq)]
    /\ pc' = [pc EXCEPT ![t] = "write"]
    /\ UNCHANGED <<_seq, cmd_writer, stdout, call, overlapped>>

\* self.cmd_writer.write(msg): returns, or raises out of the command
Write(t, ok) ==
    /\ pc[t] = "write"
    /\ IF ok
       THEN /\ cmd_writer' = Append(cmd_writer, frame[t].msg)
            /\ pc' = [pc EXCEPT ![t] = "load"]
            /\ UNCHANGED <<frame, stdout>>
       ELSE /\ pc' = [pc EXCEPT ![t] = "idle"]
            /\ frame' = [frame EXCEPT ![t] = NoFrame]
            /\ stdout' = ""
            /\ UNCHANGED cmd_writer
    /\ UNCHANGED <<_seq, call, overlapped>>

\* self._seq += 1, the read of self._seq
Load(t) ==
    /\ pc[t] = "load"
    /\ frame' = [frame EXCEPT ![t].loaded = _seq]
    /\ pc' = [pc EXCEPT ![t] = "store"]
    /\ UNCHANGED <<_seq, cmd_writer, stdout, call, overlapped>>

\* self._seq += 1, the store; then the command prints its line and returns
Store(t) ==
    /\ pc[t] = "store"
    /\ _seq' = Incremented(frame[t].loaded)
    /\ stdout' = ThreadLine(frame[t])
    /\ pc' = [pc EXCEPT ![t] = "idle"]
    /\ frame' = [frame EXCEPT ![t] = NoFrame]
    /\ UNCHANGED <<cmd_writer, call, overlapped>>

NextMT ==
    \/ \E t \in Threads, m \in Modes : Enter(t, "enable_joints", m)
    \/ \E t \in Threads : Enter(t, "go_to_zero", 0)
    \/ \E t \in Threads : Stamp(t)
    \/ \E t \in Threads, ok \in BOOLEAN : Write(t, ok)
    \/ \E t \in Threads : Load(t)
    \/ \E t \in Threads : Store(t)

SpecMT == Init /\ [][NextMT]_vars

(* ------------------------- reading the topic --------------------------- *)

\* The decoded record at position i (from 1) of the command topic.
Published(i) == loads(cmd_writer[i])

(* ------------------------------ claims --------------------------------- *)

\* The record the step just wrote, decoded.
Written == loads(cmd_writer'[Len(cmd_writer')])

\* The step handed exactly one more record to the command topic.
WroteOne ==
    /\ Len(cmd_writer') = Len(cmd_writer) + 1
    /\ SubSeq(cmd_writer', 1, Len(cmd_writer)) = cmd_writer

\* The call of this step passed its validation and its write() returned.
PassedCall ==
    /\ call'.op \in {"move_joint", "move_all_joints", "enable_joints", "go_to_zero"}
    /\ call'.op = "move_joint" => call'.joint_id \in 0 .. 6
    /\ call'.op = "move_all_joints" => Len(call'.angles) = 7
    /\ ~call'.raised

\* C1: every command that passes validation and is written carries, as seq,
\* the counter as it was before the call, and leaves the counter exactly 1
\* greater; on the controller as constructed that seq is 0.
C1_SeqIsCounterBefore ==
    [][PassedCall =>
         /\ WroteOne
         /\ Written.seq = _seq
         /\ _seq' = _seq + 1
         /\ (call.op = "none" => Written.seq = 0)]_vars

C1_Witness ==
    /\ call.op = "move_all_joints" /\ ~call.raised
    /\ Len(cmd_writer) = 2 /\ Published(1).seq = 0 /\ Published(2).seq = 1
    /\ _seq = 2

\* C2: move_joint with a joint_id outside 0..6 writes nothing, prints its
\* error line, returns without raising and leaves the counter as it was.
C2_BadJointIdIsNoOp ==
    [][(call'.op = "move_joint" /\ call'.joint_id \notin 0 .. 6) =>
         /\ cmd_writer' = cmd_writer
         /\ _seq' = _seq
         /\ stdout' = "Error: joint_id must be 0-6"
         /\ ~call'.raised]_vars

C2_Witness ==
    /\ call.op = "move_joint" /\ call.joint_id = -1
    /\ stdout = "Error: joint_id must be 0-6"
    /\ _seq = 1 /\ Len(cmd_writer) = 1

\* C3: move_all_joints with a list whose length is not 7 writes nothing,
\* prints its error line and leaves the counter as it was.
C3_BadLengthIsNoOp ==
    [][(call'.op = "move_all_joints" /\ Len(call'.angles) # 7) =>
         /\ cmd_writer' = cmd_writer
         /\ _seq' = _seq
         /\ stdout' = "Error: expected 7 angles"
         /\ ~call'.raised]_vars

C3_Witness ==
    /\ call.op = "move_all_joints" /\ Len(call.angles) = 8
    /\ stdout = "Error: expected 7 angles"
    /\ _seq = 1 /\ Len(cmd_writer) = 1

\* C4: every record on the command topic has address 1.
C4_AddressIsOne ==
    \A i \in 1 .. Len(cmd_writer) :
        "address" \in DOMAIN Published(i) /\ Published(i).address = 1

C4_Witness ==
    /\ Len(cmd_writer) = 2
    /\ Published(1).funcode = 7 /\ Published(2).funcode = 1
    /\ Published(2).seq = 1

\* The text json.dumps gives for move_joint(3, 45.0) on a new controller.
C5_ScenarioText ==
    <<"{", "funcode", ":", " ", "1", ",", " ",
           "data", ":", " ",
               "{", "id", ":", " ", "3", ",", " ",
                    "angle", ":", " ", "4", "5", ".", "0", ",", " ",
                    "delay_ms", ":", " ", "0", "}", ",", " ",
           "seq", ":", " ", "0", ",", " ",
           "address", ":", " ", "1", "}">>

\* C5: move_joint with joint_id in 0..6, once written, has put exactly one
\* record on the topic: funcode 1, data {id, angle, delay_ms} with delay_ms 0
\* when omitted; move_joint(3, 45.0) on the controller as constructed writes
\* {funcode:1, data:{id:3, angle:45.0, delay_ms:0}, seq:0, address:1}.
C5_MoveJointRecord ==
    [][(call'.op = "move_joint" /\ call'.joint_id \in 0 .. 6 /\ ~call'.raised) =>
         /\ WroteOne
         /\ Written =
               [funcode |-> 1,
                data |-> [id |-> call'.joint_id,
                          angle |-> call'.angle.v,
                          delay_ms |-> IF call'.omitted THEN 0 ELSE call'.delay_ms],
                seq |-> _seq,
                address |-> 1]
         /\ (call.op = "none" /\ call'.joint_id = 3 /\ call'.angle = FloatV(45)
                 /\ call'.omitted) =>
               /\ cmd_writer' = <<C5_ScenarioText>>
               /\ Written = [funcode |-> 1,
                             data |-> [id |-> 3, angle |-> 45, delay_ms |-> 0],
                             seq |-> 0, address |-> 1]]_vars

C5_Witness ==
    /\ call.op = "move_joint" /\ call.joint_id = 3 /\ call.angle = FloatV(45)
    /\ call.omitted /\ ~call.raised
    /\ cmd_writer = <<C5_ScenarioText>>

\* C6: decoding the record move_all_joints wrote for a 7-element list gives
\* funcode 2, data.mode 1 and data.angle0..angle6 equal to the list, in order.
C6_MoveAllRoundTrip ==
    (call.op = "move_all_joints" /\ Len(call.angles) = 7 /\ ~call.raised) =>
        /\ Len(cmd_writer) > 0
        /\ LET r == Published(Len(cmd_writer)) IN
           /\ r.funcode = 2
           /\ DOMAIN r.data =
                 {"mode", "angle0", "angle1", "angle2", "angle3", "angle4", "angle5", "angle6"}
           /\ r.data.mode = 1
           /\ r.data.angle0 = call.angles[1].v
           /\ r.data.angle1 = call.angles[2].v
           /\ r.data.angle2 = call.angles[3].v
           /\ r.data.angle3 = call.angles[4].v
           /\ r.data.angle4 = call.angles[5].v
           /\ r.data.angle5 = call.angles[6].v
           /\ r.data.angle6 = call.angles[7].v

C6_Witness ==
    /\ call.op = "move_all_joints" /\ ~call.raised /\ Len(call.angles) = 7
    /\ [i \in 1 .. 7 |-> call.angles[i].v] = <<0, 10, 20, 30, 40, 50, 60>>
    /\ Len(cmd_writer) = 1
    /\ Published(1).data.angle1 = 10 /\ Published(1).data.angle6 = 60

\* C7: go_to_zero, once written, has put one record on the topic with
\* funcode 7 and no data field: its only other fields are seq and address.
C7_ZeroHasNoData ==
    [][(call'.op = "go_to_zero" /\ ~call'.raised) =>
         /\ WroteOne
         /\ DOMAIN Written = {"funcode", "seq", "address"}
         /\ Written.funcode = 7]_vars

C7_Witness ==
    /\ call.op = "go_to_zero" /\ ~call.raised
    /\ Len(cmd_writer) = 2 /\ Published(2).funcode = 7

\* C8: enable_joints validates nothing: whatever the mode, once written it has
\* put one record on the topic with funcode 5 and data {mode}, mode 0 when
\* omitted; enable_joints(1) then enable_joints() on a new controller leave
\* two records, data.mode 1 then 0, seq 0 then 1.
C8_EnableRecord ==
    [][(call'.op = "enable_joints" /\ ~call'.raised) =>
         /\ WroteOne
         /\ Written = [funcode |-> 5,
                       data |-> [mode |-> IF call'.omitted THEN 0 ELSE call'.mode],
                       seq |-> _seq,
                       address |-> 1]
         /\ (call.op = "enable_joints" /\ call.mode = 1 /\ ~call.omitted /\ ~call.raised
                 /\ Len(cmd_writer) = 1 /\ call'.omitted) =>
               /\ Len(cmd_writer') = 2
               /\ loads(cmd_writer'[1]).data.mode = 1 /\ loads(cmd_writer'[1]).seq = 0
               /\ loads(cmd_writer'[2]).data.mode = 0 /\ loads(cmd_writer'[2]).seq = 1]_vars

C8_Witness ==
    /\ call.op = "enable_joints" /\ call.omitted /\ ~call.raised
    /\ Len(cmd_writer) = 2
    /\ Published(1).funcode = 5 /\ Published(1).data.mode = 1 /\ Published(1).seq = 0
    /\ Published(2).funcode = 5 /\ Published(2).data.mode = 0 /\ Published(2).seq = 1

\* C9: a write() that raises leaves the counter and the topic as they were,
\* so the counter always equals the number of records written, and the next
\* record written carries the seq the failed attempt was stamped with.
C9_FailedWriteKeepsCounter ==
    /\ [](_seq = Len(cmd_writer))
    /\ [][/\ call'.raised => (_seq' = _seq /\ cmd_writer' = cmd_writer)
          /\ (call.raised /\ PassedCall) => Written.seq = call.stamped]_vars

C9_Witness ==
    /\ call.raised /\ call.op = "move_joint" /\ call.stamped = 1
    /\ _seq = 1 /\ Len(cmd_writer) = 1

\* Two records on the topic carry the same seq.
DuplicateSeq ==
    \E i, j \in 1 .. Len(cmd_writer) : i < j /\ Published(i).seq = Published(j).seq

\* C10: with several threads inside _send, records are numbered 0, 1, 2, ...
\* in topic order as long as no two calls overlapped; once calls overlap a
\* record's seq can only fall behind its position and the counter behind the
\* number of records (the witness: two records with one seq, counter short).
C10_OrderNeedsOneThread ==
    /\ \A i \in 1 .. Len(cmd_writer) : Published(i).seq <= i - 1
    /\ _seq <= Len(cmd_writer)
    /\ ~overlapped =>
          /\ \A i \in 1 .. Len(cmd_writer) : Published(i).seq = i - 1
          /\ ~DuplicateSeq
          /\ (\A t \in Threads : ~Inside(t)) => _seq = Len(cmd_writer)

C10_Witness ==
    /\ DuplicateSeq
    /\ \A t \in Threads : ~Inside(t)
    /\ _seq < Len(cmd_writer)

====
